---- MODULE Spec2Model ----
(***************************************************************************)
(* GaussianNB (src/lib/naive_bayes/gaussian.ts): a Gaussian Naive Bayes    *)
(* classifier.  fit() estimates a per-class, per-feature mean and variance,*)
(* predict() evaluates the Gaussian density of every class and returns the *)
(* label of the arg-max, toJSON()/fromJSON() export and import the         *)
(* parameters, predictIterator() is the generator form of predict().       *)
(*                                                                         *)
(* Numbers.  The tensors are float32.  A float is modelled as a record     *)
(* [k, v]: k = "fin" with v the value in units of 1/Scale (fixed point,    *)
(* rounded to nearest), or one of the IEEE specials "nan", "inf", "ninf".  *)
(* The specials are exact; the sign of zero is not modelled.               *)
(*                                                                         *)
(* Labels.  A label is a JavaScript number or string: [t, s] with t the    *)
(* typeof and s the value (<<n>> for the number n, the UTF-16 code units   *)
(* for a string), so that 2 and "2" are distinct values with one string    *)
(* form.                                                                   *)
(***************************************************************************)
EXTENDS Integers, Sequences, FiniteSets, TLC

----------------------------------------------------------------------------
(* Bounds of the model *)

MaxRows == 3
MaxLen == 2
MaxBatch == 2
MaxEdits == 1
MaxExtraPulls == 1

FeatureCounts == {1, 2}
Values == {0, 2}

----------------------------------------------------------------------------
(* float32 arithmetic *)

Scale == 10000

SQRT_2PI == 25066

EXP_M1 == 3679

Fin(n) == [k |-> "fin", v |-> n]
NaN == [k |-> "nan", v |-> 0]
PosInf == [k |-> "inf", v |-> 0]
NegInf == [k |-> "ninf", v |-> 0]

Sign(n) == IF n > 0 THEN 1 ELSE IF n < 0 THEN -1 ELSE 0

Abs(n) == IF n < 0 THEN -n ELSE n

RoundDiv(n, d) == Sign(n) * Sign(d) * ((Abs(n) + (Abs(d) \div 2)) \div Abs(d))

FSign(a) == IF a.k = "inf" THEN 1 ELSE IF a.k = "ninf" THEN -1 ELSE Sign(a.v)

InfOfSign(s) == IF s > 0 THEN PosInf ELSE NegInf

FSub(a, b) ==
  IF a.k = "nan" \/ b.k = "nan" THEN NaN
  ELSE IF a.k = "fin" /\ b.k = "fin" THEN Fin(a.v - b.v)
  ELSE IF a.k = "fin" THEN InfOfSign(-FSign(b))
  ELSE IF b.k = "fin" THEN a
  ELSE IF a.k = b.k THEN NaN
  ELSE a

FMul(a, b) ==
  IF a.k = "nan" \/ b.k = "nan" THEN NaN
  ELSE IF a.k = "fin" /\ b.k = "fin" THEN Fin(RoundDiv(a.v * b.v, Scale))
  ELSE IF FSign(a) = 0 \/ FSign(b) = 0 THEN NaN
  ELSE InfOfSign(FSign(a) * FSign(b))

FDiv(a, b) ==
  IF a.k = "nan" \/ b.k = "nan" THEN NaN
  ELSE IF a.k = "fin" /\ b.k = "fin" THEN
    IF b.v = 0
      THEN IF a.v = 0 THEN NaN ELSE InfOfSign(Sign(a.v))
      ELSE Fin(RoundDiv(a.v * Scale, b.v))
  ELSE IF a.k = "fin" THEN Fin(0)
  ELSE IF b.k = "fin" THEN InfOfSign(FSign(a) * (IF b.v < 0 THEN -1 ELSE 1))
  ELSE NaN

FSquare(a) == FMul(a, a)

RECURSIVE SqrtSearch(_, _, _)
SqrtSearch(n, lo, hi) ==
  IF lo >= hi THEN lo
  ELSE LET mid == (lo + hi + 1) \div 2
       IN IF mid * mid <= n THEN SqrtSearch(n, mid, hi)
          ELSE SqrtSearch(n, lo, mid - 1)

ISqrt(n) == SqrtSearch(n, 0, 46340)

FSqrt(a) ==
  IF a.k = "nan" \/ a.k = "ninf" THEN NaN
  ELSE IF a.k = "inf" THEN PosInf
  ELSE IF a.v < 0 THEN NaN
  ELSE Fin(ISqrt(a.v * Scale))

RECURSIVE ExpSeries(_, _, _, _)
ExpSeries(r, n, term, acc) ==
  IF term = 0 THEN acc
  ELSE LET next == RoundDiv(term * (-r), n * Scale)
       IN ExpSeries(r, n + 1, next, acc + next)

RECURSIVE ExpPow(_, _)
ExpPow(x, k) ==
  IF k = 0 \/ x = 0 THEN x ELSE ExpPow(RoundDiv(x * EXP_M1, Scale), k - 1)

(* exp(-u) for a fixed-point u >= 0: exp(-1)^floor(u) * series(frac(u)) *)
ExpNeg(u) == ExpPow(ExpSeries(u % Scale, 1, Scale, Scale), u \div Scale)

FExp(a) ==
  IF a.k = "nan" THEN NaN
  ELSE IF a.k = "inf" THEN PosInf
  ELSE IF a.k = "ninf" THEN Fin(0)
  ELSE IF a.v <= 0 THEN Fin(ExpNeg(-a.v))
  ELSE FDiv(Fin(Scale), Fin(ExpNeg(a.v)))

(* a > b as JavaScript evaluates it: false when either side is NaN *)
FGreater(a, b) ==
  IF a.k = "nan" \/ b.k = "nan" THEN FALSE
  ELSE IF a.k = "fin" /\ b.k = "fin" THEN a.v > b.v
  ELSE IF a.k = b.k THEN FALSE
  ELSE a.k = "inf" \/ b.k = "ninf"

(* the number n as a float *)
Num(n) == Fin(n * Scale)

----------------------------------------------------------------------------
(* Labels *)

NumLabel(n) == [t |-> "number", s |-> <<n>>]
StrLabel(codes) == [t |-> "string", s |-> codes]
UndefinedLabel == [t |-> "undefined", s |-> <<>>]

RECURSIVE Digits(_)
Digits(n) ==
  IF n < 10 THEN <<48 + n>> ELSE Append(Digits(n \div 10), 48 + (n % 10))

(* category.toString() *)
toString(l) == IF l.t = "number" THEN Digits(l.s[1]) ELSE l.s

Labels == {NumLabel(2), NumLabel(10), StrLabel(<<50>>)}

----------------------------------------------------------------------------
(* Arrays and tensors *)

Range(s) == {s[i] : i \in DOMAIN s}

SeqsUpTo(S, n) == UNION {[1..m -> S] : m \in 0..n}

RECURSIVE Flatten(_)
Flatten(rows) ==
  IF rows = <<>> THEN <<>> ELSE Head(rows) \o Flatten(Tail(rows))

(* a tf.Tensor2D: its shape and its values in row-major order (dataSync) *)
Tensor(shape, data) == [shape |-> shape, data |-> data]

(* tf.tensor2d(values): the shape is inferred from the nested array and   *)
(* every row must have the length of the first; otherwise it throws       *)
tensor2dThrows(values) ==
  \/ values = <<>>
  \/ \E i \in DOMAIN values : Len(values[i]) # Len(values[1])

tensor2d(values) == Tensor(<<Len(values), Len(values[1])>>, Flatten(values))

(* reshape(flat, [rows, cols]) of ../ops: the nested array form *)
reshape(flat, shape) ==
  [i \in 1..shape[1] |-> [j \in 1..shape[2] |-> flat[(i - 1) * shape[2] + j]]]

----------------------------------------------------------------------------
(* fitModel *)

(* a < b in the order of Array.prototype.sort() without a comparator:    *)
(* the operands are converted to strings and compared by code units      *)
RECURSIVE CodeUnitsLess(_, _)
CodeUnitsLess(a, b) ==
  IF b = <<>> THEN FALSE
  ELSE IF a = <<>> THEN TRUE
  ELSE IF Head(a) # Head(b) THEN Head(a) < Head(b)
  ELSE CodeUnitsLess(Tail(a), Tail(b))

SortLess(a, b) == CodeUnitsLess(toString(a), toString(b))

(* insert x after every element that does not sort after it (stable) *)
RECURSIVE SortInsert(_, _)
SortInsert(sorted, x) ==
  IF sorted = <<>> THEN <<x>>
  ELSE IF SortLess(x, Head(sorted)) THEN <<x>> \o sorted
  ELSE <<Head(sorted)>> \o SortInsert(Tail(sorted), x)

RECURSIVE sort(_)
sort(a) ==
  IF a = <<>> THEN <<>>
  ELSE SortInsert(sort(SubSeq(a, 1, Len(a) - 1)), a[Len(a)])

(* [...new Set(y)]: the distinct values of y in order of first appearance *)
RECURSIVE SetOf(_)
SetOf(y) ==
  IF y = <<>> THEN <<>>
  ELSE LET init == SetOf(SubSeq(y, 1, Len(y) - 1))
           last == y[Len(y)]
       IN IF last \in Range(init) THEN init ELSE Append(init, last)

(* separatedByCategory[key]: the rows zipped with a label whose string   *)
(* form is key, in row order                                             *)
RECURSIVE separatedByCategory(_, _, _)
separatedByCategory(X, y, key) ==
  IF X = <<>> THEN <<>>
  ELSE LET rest == separatedByCategory(Tail(X), Tail(y), key)
       IN IF toString(Head(y)) = key THEN <<Head(X)>> \o rest ELSE rest

RECURSIVE FSum(_)
FSum(s) == IF s = <<>> THEN 0 ELSE Head(s) + FSum(Tail(s))

(* tf.moments(classFeatures, [0]): per column the mean and the mean of   *)
(* the squared deviations from it (divisor: the number of rows)          *)
momentsMean(rows, j) ==
  Fin(RoundDiv(FSum([i \in DOMAIN rows |-> Num(rows[i][j]).v]), Len(rows)))

momentsVariance(rows, j) ==
  LET m == momentsMean(rows, j)
  IN Fin(RoundDiv(
       FSum([i \in DOMAIN rows |-> FSquare(FSub(Num(rows[i][j]), m)).v]),
       Len(rows)))

classFeatures(X, y, category) == separatedByCategory(X, y, toString(category))

fitModel(X, y) ==
  LET classCategories == sort(SetOf(y))
      F == Len(X[1])
      C == Len(classCategories)
  IN [classCategories |-> classCategories,
      mean |-> Tensor(<<C, F>>, Flatten(
        [i \in 1..C |-> [j \in 1..F |->
          momentsMean(classFeatures(X, y, classCategories[i]), j)]])),
      variance |-> Tensor(<<C, F>>, Flatten(
        [i \in 1..C |-> [j \in 1..F |->
          momentsVariance(classFeatures(X, y, classCategories[i]), j)]]))]

----------------------------------------------------------------------------
(* Element-wise tensor operations with broadcasting *)

Max(a, b) == IF a >= b THEN a ELSE b

BroadcastOk(s1, s2) ==
  \A d \in 1..2 : s1[d] = s2[d] \/ s1[d] = 1 \/ s2[d] = 1

BroadcastShape(s1, s2) ==
  [d \in 1..2 |-> IF s1[d] = 1 THEN s2[d] ELSE IF s2[d] = 1 THEN s1[d] ELSE Max(s1[d], s2[d])]

At(t, i, j) ==
  t.data[((IF t.shape[1] = 1 THEN 1 ELSE i) - 1) * t.shape[2]
         + (IF t.shape[2] = 1 THEN 1 ELSE j)]

TMap(Op(_), a) == Tensor(a.shape, [n \in DOMAIN a.data |-> Op(a.data[n])])

TZip(Op(_, _), a, b) ==
  LET shape == BroadcastShape(a.shape, b.shape)
  IN Tensor(shape, [n \in 1..(shape[1] * shape[2]) |->
       LET i == ((n - 1) \div shape[2]) + 1
           j == ((n - 1) % shape[2]) + 1
       IN Op(At(a, i, j), At(b, i, j))])

(* t.prod(1): the product of every row *)
RECURSIVE RowProd(_, _, _)
RowProd(t, i, j) ==
  IF j = 0 THEN Num(1) ELSE FMul(RowProd(t, i, j - 1), At(t, i, j))

prod(t) == [i \in 1..t.shape[1] |-> RowProd(t, i, t.shape[2])]

(* argMax of the CPU kernel: the first value is the running maximum and  *)
(* a later value replaces it only when it compares greater               *)
RECURSIVE argMaxScan(_, _, _)
argMaxScan(vals, j, maxIndex) ==
  IF j > Len(vals) THEN maxIndex
  ELSE IF FGreater(vals[j], vals[maxIndex]) THEN argMaxScan(vals, j + 1, j)
  ELSE argMaxScan(vals, j + 1, maxIndex)

argMax(vals) == argMaxScan(vals, 1, 1)

----------------------------------------------------------------------------
(* The classifier object and its methods as functions of its fields *)

(* a field that was never assigned *)
UndefinedTensor == [shape |-> <<>>, data |-> <<>>]
UndefinedRef == 0

New == [classCategories |-> UndefinedRef, mean |-> UndefinedTensor,
        variance |-> UndefinedTensor]

Returned(labels) == [outcome |-> "returned", error |-> "", labels |-> labels]
Threw(error) == [outcome |-> "threw", error |-> error, labels |-> <<>>]

(* classCategories[selectionIndex]; an index past the end reads undefined *)
ElementAt(a, i) == IF i \in DOMAIN a THEN a[i] ELSE UndefinedLabel

dimensionMismatchIfLonger(numFeatures, summaryLength) == numFeatures > summaryLength

(* the comparison of input and summary shapes *)
dimensionMismatch(numFeatures, summaryLength) == numFeatures # summaryLength

NegSquare(a) == FMul(FSquare(a), Num(-1))
Twice(a) == FMul(a, Num(2))
InnerDiv(a) == FMul(Fin(SQRT_2PI), FSqrt(a))
OneOver(a) == FDiv(Num(1), a)

(* probabilityArray.prod(1) *)
scores(x, mean, variance) ==
  LET matrixX == Tensor(<<1, Len(x)>>, [j \in DOMAIN x |-> Num(x[j])])
      meanValPow == TMap(NegSquare, TZip(FSub, matrixX, mean))
      exponent == TMap(FExp, TZip(FDiv, meanValPow, TMap(Twice, variance)))
      innerDiv == TMap(InnerDiv, variance)
      probabilityArray == TZip(FMul, TMap(OneOver, innerDiv), exponent)
  IN prod(probabilityArray)

(* singlePredict(X) on the classifier nb, cats the array nb.classCategories *)
singlePredict(nb, cats, x) ==
  IF nb.mean = UndefinedTensor THEN Threw("TypeError")
  ELSE IF dimensionMismatch(Len(x), nb.mean.shape[2]) THEN Threw("Error")
  ELSE IF nb.variance = UndefinedTensor THEN Threw("TypeError")
  ELSE IF ~BroadcastOk(<<1, Len(x)>>, nb.mean.shape) THEN Threw("ShapeError")
  ELSE IF ~BroadcastOk(BroadcastShape(<<1, Len(x)>>, nb.mean.shape), nb.variance.shape)
    THEN Threw("ShapeError")
  ELSE Returned(<<ElementAt(cats, argMax(scores(x, nb.mean, nb.variance)))>>)

(* validateMatrix2D of ../ops: the batch is a non-empty rectangular matrix *)
validateMatrix2DThrows(X) ==
  \/ X = <<>>
  \/ \E i \in DOMAIN X : Len(X[i]) # Len(X[1])

(* X.map(x => this.singlePredict(x)): the first throw ends the map *)
RECURSIVE mapSinglePredict(_, _, _)
mapSinglePredict(nb, cats, X) ==
  IF X = <<>> THEN Returned(<<>>)
  ELSE LET first == singlePredict(nb, cats, Head(X))
       IN IF first.outcome = "threw" THEN first
          ELSE LET rest == mapSinglePredict(nb, cats, Tail(X))
               IN IF rest.outcome = "threw" THEN rest
                  ELSE Returned(first.labels \o rest.labels)

predict(nb, cats, X) ==
  IF validateMatrix2DThrows(X) THEN Threw("ValidationError")
  ELSE mapSinglePredict(nb, cats, X)

(* validateFitInputs of ../ops: X and y are non-empty and of equal       *)
(* length, and X is a rectangular matrix of rows of at least one number  *)
validateFitInputsThrows(X, y) ==
  \/ X = <<>>
  \/ y = <<>>
  \/ Len(X) # Len(y)
  \/ \E i \in DOMAIN X : Len(X[i]) = 0 \/ Len(X[i]) # Len(X[1])

(* toJSON: the object it returns, or the TypeError of reading a field    *)
(* of an undefined tensor.  classCategories is the array itself          *)
toJSONThrows(nb) == nb.mean = UndefinedTensor \/ nb.variance = UndefinedTensor

toJSON(nb) ==
  [classCategories |-> nb.classCategories,
   mean |-> reshape(nb.mean.data, nb.mean.shape),
   variance |-> reshape(nb.variance.data, nb.variance.shape)]

fromJSONThrows(modelState) ==
  tensor2dThrows(modelState.mean) \/ tensor2dThrows(modelState.variance)

fromJSONSwapped(nb, modelState) ==
  [classCategories |-> modelState.classCategories,
   mean |-> IF tensor2dThrows(modelState.mean) THEN nb.mean
            ELSE tensor2d(modelState.variance),
   variance |-> IF fromJSONThrows(modelState) THEN nb.variance
                ELSE tensor2d(modelState.mean)]

(* fromJSON: three assignments in order; a throwing tf.tensor2d leaves   *)
(* the later fields as they were                                         *)

fromJSON(nb, modelState) ==
  [classCategories |-> modelState.classCategories,
   mean |-> IF tensor2dThrows(modelState.mean) THEN nb.mean
            ELSE tensor2d(modelState.mean),
   variance |-> IF fromJSONThrows(modelState) THEN nb.variance
                ELSE tensor2d(modelState.variance)]

----------------------------------------------------------------------------
(* Inputs *)

Rows(n) == [1..n -> Values]

(* training sets of at most rows rows that pass validateFitInputs *)
ValidFitArgs(rows) ==
  UNION {UNION {[X : [1..n -> Rows(f)], y : [1..n -> Labels]] : n \in 1..rows}
         : f \in FeatureCounts}

(* the ways a training set fails validation: no rows, a label short,     *)
(* a last row longer than the others                                     *)
Broken(a) ==
  {[X |-> <<>>, y |-> <<>>],
   [X |-> a.X, y |-> Tail(a.y)],
   [X |-> Append(a.X, Append(a.X[1], 0)), y |-> Append(a.y, a.y[1])]}

FitArgs(rows) ==
  ValidFitArgs(rows) \cup UNION {Broken(a) : a \in ValidFitArgs(rows)}

(* fitted classifiers of every kind: two classes of non-zero variance,   *)
(* two features, a class of a single sample before and after the other   *)
(* class, and two labels of one string form                              *)
Examples ==
  {[X |-> <<<<0>>, <<2>>, <<1>>, <<3>>>>,
    y |-> <<NumLabel(10), NumLabel(10), NumLabel(2), NumLabel(2)>>],
   [X |-> <<<<1, 2>>, <<2, 3>>, <<3, 4>>, <<4, 4>>>>,
    y |-> <<NumLabel(1), NumLabel(0), NumLabel(1), NumLabel(0)>>],
   [X |-> <<<<0>>, <<2>>, <<2>>>>,
    y |-> <<NumLabel(2), NumLabel(2), NumLabel(10)>>],
   [X |-> <<<<0>>, <<2>>, <<2>>>>,
    y |-> <<NumLabel(10), NumLabel(10), NumLabel(2)>>],
   [X |-> <<<<0>>, <<2>>>>,
    y |-> <<NumLabel(2), StrLabel(<<50>>)>>]}

NoArgs == [X |-> <<>>, y |-> <<>>]

(* rows handed to predict: every length up to MaxLen, shorter and longer *)
(* than the feature counts of the fitted classifiers                     *)
PredictRows == UNION {Rows(n) : n \in 0..MaxLen}

PredictBatches == SeqsUpTo(PredictRows, MaxBatch)

(* the batches that tell two classifiers apart: predict maps             *)
(* singlePredict over the rows, so the empty batch and the batches of    *)
(* one row decide every batch                                            *)
ProbeBatches == {<<>>} \cup {<<x>> : x \in PredictRows}

(* what the caller writes into a snapshot it holds: a number, the label "x" *)
EditValues == {Num(3)}

EditLabels == {StrLabel(<<120>>)}

----------------------------------------------------------------------------
(* State *)

VARIABLES
  nb,        \* the fields of each GaussianNB instance
  heap,      \* the label arrays, by reference: nb[c].classCategories indexes it
  snap,      \* the snapshot object the caller holds (the last toJSON result)
  gen,       \* the generator object of the predictIterator call
  call,      \* the last call made and how it ended
  train,     \* the caller's training set
  batch,     \* the caller's rows to predict
  exported,  \* the instance snap was exported from, while both are untouched
  edits      \* the number of writes the caller made to snapshots

vars == <<nb, heap, snap, gen, call, train, batch, exported, edits>>

Instances == {"A", "B"}

NoSnap == [exists |-> FALSE, classCategories |-> UndefinedRef,
           mean |-> <<>>, variance |-> <<>>]

NoGen == [status |-> "none", inst |-> "", source |-> <<>>, pulled |-> 0,
          requested |-> 0, out |-> <<>>, failed |-> FALSE]

Call(op, inst, result) ==
  [op |-> op, inst |-> inst, X |-> <<>>, outcome |-> result.outcome,
   error |-> result.error, labels |-> result.labels, from |-> "none"]

Categories(c) ==
  IF nb[c].classCategories = UndefinedRef THEN <<>>
  ELSE heap[nb[c].classCategories]

Fitted(c) == nb[c].mean # UndefinedTensor /\ nb[c].variance # UndefinedTensor

NumFeatures(c) == nb[c].mean.shape[2]

(* The heap holds the arrays that are reachable; an array no classifier  *)
(* and no snapshot refers to is collected and its place used again       *)
Live(nbs, sn) ==
  ({nbs[c].classCategories : c \in Instances} \cup {sn.classCategories})
    \ {UndefinedRef}

RECURSIVE FreeRef(_, _)
FreeRef(live, r) == IF r \in live THEN FreeRef(live, r + 1) ELSE r

RECURSIVE Top(_, _)
Top(live, r) == IF r = 0 \/ r \in live THEN r ELSE Top(live, r - 1)

Collect(h, live) ==
  [r \in 1..Top(live, Len(h)) |-> IF r \in live THEN h[r] ELSE <<>>]

Store(h, r, a) ==
  [q \in 1..Max(Len(h), r) |-> IF q = r THEN a ELSE IF q <= Len(h) THEN h[q] ELSE <<>>]

InitWith(t, b) ==
  /\ nb = [c \in Instances |-> New]
  /\ heap = <<>>
  /\ snap = NoSnap
  /\ gen = NoGen
  /\ call = Call("new", "", Returned(<<>>))
  /\ train = t
  /\ batch = b
  /\ exported = "none"
  /\ edits = 0

----------------------------------------------------------------------------
(* Operations *)

(* fit(X, y) *)
Fit(c, X, y) ==
  /\ IF validateFitInputsThrows(X, y)
     THEN /\ call' = Call("fit", c, Threw("ValidationError"))
          /\ UNCHANGED <<nb, heap, exported>>
     ELSE LET m == fitModel(X, y)
              kept == Live([nb EXCEPT ![c] = New], snap)
              ref == FreeRef(kept, 1)
          IN /\ heap' = Collect(Store(heap, ref, m.classCategories), kept \cup {ref})
             /\ nb' = [nb EXCEPT ![c] = [classCategories |-> ref,
                                         mean |-> m.mean,
                                         variance |-> m.variance]]
             /\ exported' = IF exported = c THEN "none" ELSE exported
             /\ call' = Call("fit", c, Returned(<<>>))
  /\ UNCHANGED <<snap, gen, train, batch, edits>>

(* predict(X) *)
Predict(c, X) ==
  /\ call' = [Call("predict", c, predict(nb[c], Categories(c), X)) EXCEPT !.X = X]
  /\ UNCHANGED <<nb, heap, snap, gen, train, batch, exported, edits>>

(* toJSON(); the caller keeps the returned object *)
ToJSON(c) ==
  /\ IF toJSONThrows(nb[c])
     THEN /\ call' = Call("toJSON", c, Threw("TypeError"))
          /\ UNCHANGED <<snap, heap, exported>>
     ELSE /\ snap' = [exists |-> TRUE] @@ toJSON(nb[c])
          /\ heap' = Collect(heap, Live(nb, snap'))
          /\ exported' = c
          /\ call' = Call("toJSON", c, Returned(<<>>))
  /\ UNCHANGED <<nb, gen, train, batch, edits>>

(* fromJSON(modelState) with the object the caller holds *)
FromJSON(c) ==
  /\ snap.exists
  /\ nb' = [nb EXCEPT ![c] = fromJSON(nb[c], snap)]
  /\ heap' = Collect(heap, Live(nb', snap))
  /\ call' = [Call("fromJSON", c,
                   IF fromJSONThrows(snap) THEN Threw("Error") ELSE Returned(<<>>))
              EXCEPT !.from = exported]
  /\ exported' = IF exported = c THEN "none" ELSE exported
  /\ UNCHANGED <<snap, gen, train, batch, edits>>

(* the caller writes to the snapshot it holds *)
Edited ==
  /\ snap.exists
  /\ edits < MaxEdits
  /\ edits' = edits + 1
  /\ exported' = "none"
  /\ call' = Call("edit", "", Returned(<<>>))
  /\ UNCHANGED <<nb, gen, train, batch>>

(* snapshot.classCategories[0] = l *)
SetCategory(l) ==
  /\ Edited
  /\ heap' = [heap EXCEPT ![snap.classCategories][1] = l]
  /\ UNCHANGED snap

(* snapshot.mean[0][0] = v *)
SetMean(v) ==
  /\ Edited
  /\ snap' = [snap EXCEPT !.mean[1][1] = v]
  /\ UNCHANGED heap

(* snapshot.variance[0][0] = v *)
SetVariance(v) ==
  /\ Edited
  /\ snap' = [snap EXCEPT !.variance[1][1] = v]
  /\ UNCHANGED heap

(* snapshot.mean.push([]) *)
PushMean ==
  /\ Edited
  /\ snap' = [snap EXCEPT !.mean = Append(@, <<>>)]
  /\ UNCHANGED heap

(* snapshot.variance.push([]) *)
PushVariance ==
  /\ Edited
  /\ snap' = [snap EXCEPT !.variance = Append(@, <<>>)]
  /\ UNCHANGED heap

(* predictIterator(X): creating the generator runs none of its body *)
PredictIterator(c, X) ==
  /\ gen.status = "none"
  /\ gen' = [status |-> "suspendedStart", inst |-> c, source |-> X,
             pulled |-> 0, requested |-> 0, out |-> <<>>, failed |-> FALSE]
  /\ call' = Call("predictIterator", c, Returned(<<>>))
  /\ UNCHANGED <<nb, heap, snap, train, batch, exported, edits>>

nextRowAhead(g) ==
  [x |-> g.source[g.pulled + 1],
   pulled |-> IF g.pulled + 2 <= Len(g.source) THEN g.pulled + 2 ELSE g.pulled + 1]

(* for (const x of X): the next row of the source and the rows taken *)
nextRow(g) == [x |-> g.source[g.pulled + 1], pulled |-> g.pulled + 1]

(* next() on the generator *)
IterNext ==
  /\ gen.status # "none"
  /\ gen.requested < Len(gen.source) + MaxExtraPulls
  /\ IF gen.status = "completed" \/ gen.pulled = Len(gen.source)
     THEN /\ gen' = [gen EXCEPT !.status = "completed", !.requested = @ + 1]
          /\ call' = [Call("next", gen.inst, Returned(<<>>)) EXCEPT !.outcome = "done"]
     ELSE LET row == nextRow(gen)
              r == singlePredict(nb[gen.inst], Categories(gen.inst), row.x)
          IN IF r.outcome = "threw"
             THEN /\ gen' = [gen EXCEPT !.status = "completed", !.requested = @ + 1,
                                        !.pulled = row.pulled, !.failed = TRUE]
                  /\ call' = Call("next", gen.inst, r)
             ELSE /\ gen' = [gen EXCEPT !.status = "suspendedYield",
                                        !.requested = @ + 1,
                                        !.pulled = row.pulled,
                                        !.out = @ \o r.labels]
                  /\ call' = Call("next", gen.inst, r)
  /\ UNCHANGED <<nb, heap, snap, train, batch, exported, edits>>

----------------------------------------------------------------------------
(* Specifications *)

(* the life of two classifiers and of the snapshot passed between them:  *)
(* the caller owns one training set and fits A on it, and both           *)
(* classifiers export and import                                         *)
Init == \E a \in Examples : InitWith(a, <<>>)

Next ==
  \/ \E a \in {train} \cup Broken(train) : Fit("A", a.X, a.y)
  \/ \E c \in Instances : ToJSON(c)
  \/ \E c \in Instances : FromJSON(c)
  \/ \E l \in EditLabels : SetCategory(l)
  \/ \E v \in EditValues : SetMean(v)
  \/ \E v \in EditValues : SetVariance(v)
  \/ PushMean
  \/ PushVariance

Spec == Init /\ [][Next]_vars

(* fit on every training set of the bounds, then predict its rows *)
InitTrain == \E a \in FitArgs(MaxRows) : InitWith(a, <<>>)

NextTrain ==
  \/ Fit("A", train.X, train.y)
  \/ \E k \in DOMAIN train.X : Predict("A", <<train.X[k]>>)

SpecTrain == InitTrain /\ [][NextTrain]_vars

(* one classifier, fitted once or not at all, and every batch of the     *)
(* bounds handed to predict                                              *)
InitPredict == \E b \in PredictBatches : InitWith(NoArgs, b)

NextPredict ==
  \/ \E e \in Examples : ~Fitted("A") /\ Fit("A", e.X, e.y)
  \/ Predict("A", batch)

SpecPredict == InitPredict /\ [][NextPredict]_vars

(* one classifier and every batch of the bounds as the source of a       *)
(* generator                                                             *)
NextIter ==
  \/ \E e \in Examples : gen.status = "none" /\ Fit("A", e.X, e.y)
  \/ PredictIterator("A", batch)
  \/ IterNext

SpecIter == InitPredict /\ [][NextIter]_vars

(* a classifier that is never fitted: every call it offers *)
NextUnfitted ==
  \/ \E e \in Examples : \E a \in Broken(e) : Fit("A", a.X, a.y)
  \/ Predict("A", batch)
  \/ ToJSON("A")
  \/ PredictIterator("A", batch)
  \/ IterNext

SpecUnfitted == InitPredict /\ [][NextUnfitted]_vars

----------------------------------------------------------------------------
(* Properties *)

(* the training rows whose label is the value l *)
RECURSIVE RowsOf(_, _, _)
RowsOf(X, y, l) ==
  IF X = <<>> THEN <<>>
  ELSE (IF Head(y) = l THEN <<Head(X)>> ELSE <<>>) \o RowsOf(Tail(X), Tail(y), l)

Occurrences(y, l) == Cardinality({k \in DOMAIN y : y[k] = l})

(* the order of the label type: numbers by value, strings by code units; *)
(* a number and a string are not ordered                                 *)
NaturalLess(a, b) ==
  IF a.t = "number" /\ b.t = "number" THEN a.s[1] < b.s[1]
  ELSE IF a.t = "string" /\ b.t = "string" THEN CodeUnitsLess(a.s, b.s)
  ELSE TRUE

(* C1: after a successful fit(X, y), classCategories holds every         *)
(* distinct label of y exactly once, ascending in the natural order of   *)
(* the label type (2 before 10), whatever the order of the labels in y   *)
ClassCatalogSorted ==
  Fitted("A") =>
    LET cc == Categories("A")
    IN /\ Range(cc) = Range(train.y)
       /\ Len(cc) = Cardinality(Range(train.y))
       /\ \A i, j \in DOMAIN cc : i < j => NaturalLess(cc[i], cc[j])

(* C2: after a successful fit, row i of mean and of variance is computed *)
(* from exactly the training rows whose label equals classCategories[i], *)
(* and both have the shape [distinct labels, numFeatures]                *)
ParametersFromOwnRows ==
  Fitted("A") =>
    LET cc == Categories("A")
        shape == <<Cardinality(Range(train.y)), Len(train.X[1])>>
    IN /\ nb["A"].mean.shape = shape
       /\ nb["A"].variance.shape = shape
       /\ \A i \in DOMAIN cc : \A j \in 1..shape[2] :
            LET rows == RowsOf(train.X, train.y, cc[i])
            IN /\ At(nb["A"].mean, i, j) = momentsMean(rows, j)
               /\ At(nb["A"].variance, i, j) = momentsVariance(rows, j)

UnfittedCallsFail ==
  /\ nb["A"] = New
  /\ (\/ call.op \in {"predict", "toJSON"}
      \/ call.op = "next" /\ gen.requested = 1)
     => call.outcome = "threw"

(* C5: a fit that throws leaves the three fields as they were, and the   *)
(* three fields of a classifier come together: a classifier has all of   *)
(* classCategories, mean and variance or none of them                    *)
NoPartialFit ==
  [][/\ (call'.op = "fit" /\ call'.outcome = "threw") => (nb' = nb /\ heap' = heap)
     /\ \A c \in Instances :
          /\ (nb'[c].classCategories = UndefinedRef) = (nb'[c].mean = UndefinedTensor)
          /\ (nb'[c].mean = UndefinedTensor) = (nb'[c].variance = UndefinedTensor)]_vars

toJSONValue(c) == [toJSON(nb[c]) EXCEPT !.classCategories = Categories(c)]

(* C6: after B.fromJSON(A.toJSON()), B.toJSON() equals A.toJSON() and    *)
(* B.predict(X) returns what A.predict(X) returns, for every batch X     *)
RoundTrip ==
  (call.op = "fromJSON" /\ call.outcome = "returned" /\ call.from # "none") =>
    /\ toJSONValue(call.inst) = toJSONValue(call.from)
    /\ \A X \in ProbeBatches :
         predict(nb[call.inst], Categories(call.inst), X)
           = predict(nb[call.from], Categories(call.from), X)

(* C6 happens: B imported the export of A and predicts with it *)
RoundTripDone ==
  /\ call.op = "fromJSON"
  /\ call.outcome = "returned"
  /\ call.from = "A"
  /\ call.inst = "B"
  /\ \E X \in ProbeBatches :
       predict(nb["B"], Categories("B"), X).labels # <<>>

(* C7: a write of the caller to a snapshot object leaves the label       *)
(* array, the mean and the variance of every classifier as they were     *)
SnapshotIsolated ==
  [][call'.op = "edit" =>
       \A c \in Instances :
         /\ nb'[c] = nb[c]
         /\ Categories(c)' = Categories(c)]_vars

SingleSampleClass ==
  \A k \in DOMAIN train.y :
    (/\ Fitted("A")
     /\ Occurrences(train.y, train.y[k]) = 1
     /\ \A q \in DOMAIN train.y :
          q # k => /\ train.X[q] # train.X[k]
                   /\ toString(train.y[q]) # toString(train.y[k]))
    => /\ \A i \in DOMAIN Categories("A") :
            Categories("A")[i] = train.y[k]
              => \A j \in 1..NumFeatures("A") : At(nb["A"].variance, i, j) = Fin(0)
       /\ (call.op = "predict" /\ call.X = <<train.X[k]>>)
            => call.labels = <<train.y[k]>>

(* index i is the lowest index whose score equals the maximum score *)
IsLowestMax(s, i) ==
  /\ s[i].k # "nan"
  /\ \A k \in DOMAIN s : s[k].k # "nan" => ~FGreater(s[k], s[i])
  /\ \A k \in 1..(i - 1) : s[k] # s[i]

(* C10: after a successful fit, predict of rows of the fitted feature    *)
(* count returns one label per row, each the label of the lowest class   *)
(* index whose score is the maximum score (where a class has a score     *)
(* that is a number)                                                     *)
PredictIsArgMax ==
  (/\ call.op = "predict"
   /\ Fitted("A")
   /\ call.X # <<>>
   /\ \A k \in DOMAIN call.X : Len(call.X[k]) = NumFeatures("A"))
  => /\ call.outcome = "returned"
     /\ Len(call.labels) = Len(call.X)
     /\ \A k \in DOMAIN call.X :
          LET s == scores(call.X[k], nb["A"].mean, nb["A"].variance)
          IN (\E i \in DOMAIN s : s[i].k # "nan")
               => \E i \in DOMAIN s :
                    /\ IsLowestMax(s, i)
                    /\ call.labels[k] = ElementAt(Categories("A"), i)

====
